---- MODULE Spec2Model ----
(***************************************************************************)
(* Model of the Confluence request pipeline of mcp-server-for-atlassian:   *)
(* ConfluenceClient (session scope, _make_request with its retry/backoff   *)
(* and error classification, the page operations built on it), the         *)
(* authentication strategies it uses, and ConfluenceHTMLConverter (convert, *)
(* macro rewriting, markdown postprocessing).                               *)
(***************************************************************************)
EXTENDS Integers, Sequences, FiniteSets, TLC

VARIABLES
    max_retries,    \* ConfluenceClient.max_retries (constructor argument)
    auth_strategy,  \* ConfluenceClient.auth_strategy: the concrete strategy class
    client,         \* ConfluenceClient._client: None or <<session id>>
    sessions,       \* every httpx.AsyncClient created: "none" | "open" | "closed"
    closes,         \* how many times aclose() ran on each session
    scope,          \* position of the `async with client:` block (main.lifespan)
    exit_path,      \* how the scope body was left: "none" | "normal" | "exception"
    calls,          \* per logical call of _make_request: its coroutine state
    callers,        \* per caller: the client operations it invokes
    cred,           \* the APITokenAuth object and its authenticate() coroutine
    conv,           \* one run of ConfluenceHTMLConverter.convert and its re-runs
    doc             \* one run of _handle_confluence_macros over a document

vars == <<max_retries, auth_strategy, client, sessions, closes, scope, exit_path, calls,
          callers, cred, conv, doc>>

-----------------------------------------------------------------------------
(* Bounds of the model and constants of the program *)

\* ConfluenceClient.DEFAULT_MAX_RETRIES
DEFAULT_MAX_RETRIES == 3

\* max_retries is drawn from 0..MaxRetriesBound
MaxRetriesBound == 3

\* max_retries is drawn from 0..MaxOpsRetries under the page operations
MaxOpsRetries == 1

\* number of httpx.AsyncClient objects one run may create
MaxSessions == 2

\* the values of max_retries explored when two callers share a session
ConcRetries == {0, 1}

\* callers of the client; each has at most one logical call in progress
CallIds == {"c1", "c2"}

\* Optional[...] values: None is the empty tuple, a value v is <<v>>
None == <<>>
Some(v) == <<v>>

Pow2(n) == 2 ^ n

-----------------------------------------------------------------------------
(* Python values used by the request code *)

\* Retry-After header values a 429 response may carry, as character sequences.
\* The empty sequence stands for both an absent header (headers.get gives None)
\* and an empty one: `if retry_after` treats the two alike.
RetryAfterHeaders ==
    { <<>>, <<"0">>, <<"6", "0">>, <<"W", "e", "d", ",", " ", "2", "1">> }

Digits == {"0", "1", "2", "3", "4", "5", "6", "7", "8", "9"}

DigitVal(ch) ==
    CASE ch = "0" -> 0 [] ch = "1" -> 1 [] ch = "2" -> 2 [] ch = "3" -> 3
      [] ch = "4" -> 4 [] ch = "5" -> 5 [] ch = "6" -> 6 [] ch = "7" -> 7
      [] ch = "8" -> 8 [] ch = "9" -> 9

\* int(s) of Python for the header strings above: decimal digits parse,
\* anything else raises ValueError.
IntParses(s) == Len(s) > 0 /\ \A i \in 1..Len(s) : s[i] \in Digits

RECURSIVE IntOf(_)
IntOf(s) ==
    IF Len(s) = 0 THEN 0
    ELSE 10 * IntOf(SubSeq(s, 1, Len(s) - 1)) + DigitVal(s[Len(s)])

\* Exception classes and their base class (httpx, src/exceptions.py, builtins)
ExcParent ==
    [ ConnectTimeout      |-> "TimeoutException",
      ReadTimeout         |-> "TimeoutException",
      WriteTimeout        |-> "TimeoutException",
      PoolTimeout         |-> "TimeoutException",
      TimeoutException    |-> "TransportError",
      ConnectError        |-> "NetworkError",
      ReadError           |-> "NetworkError",
      NetworkError        |-> "TransportError",
      TransportError      |-> "RequestError",
      RequestError        |-> "Exception",
      MCPServerError      |-> "Exception",
      AuthenticationError |-> "MCPServerError",
      APIError            |-> "MCPServerError",
      RateLimitError      |-> "APIError",
      PageNotFoundError   |-> "APIError",
      ConversionError     |-> "MCPServerError",
      ValueError          |-> "Exception",
      RuntimeError        |-> "Exception",
      NotImplementedError |-> "RuntimeError",
      Exception           |-> "Exception" ]

RECURSIVE IsInstance(_, _)
IsInstance(cls, base) ==
    IF cls = base THEN TRUE
    ELSE IF cls = "Exception" THEN FALSE
    ELSE IsInstance(ExcParent[cls], base)

\* An exception object: class, message, status_code, retry_after, and what its
\* details string reports (the retry count, the wrapped exception's type name).
Exc(cls, message, status_code, retry_after, retries, wrapped) ==
    [ cls |-> cls, message |-> message, status_code |-> status_code,
      retry_after |-> retry_after, retries |-> retries, wrapped |-> wrapped ]

\* src/exceptions.py
AuthenticationError(message) == Exc("AuthenticationError", message, None, None, None, None)
APIError(message, status_code, retries, wrapped) ==
    Exc("APIError", message, status_code, None, retries, wrapped)
RateLimitError(message, retry_after, retries) ==
    Exc("RateLimitError", message, Some(429), retry_after, retries, None)

\* PageNotFoundError(page_id): an APIError with status_code 404 and a page_id
PageNotFoundError(page_id) ==
    Exc("PageNotFoundError", "Page not found", Some(404), None, None, None)
      @@ [page_id |-> page_id]

\* An exception raised by a library (httpx, json, the auth strategy)
LibExc(cls) == Exc(cls, cls, None, None, None, None)

-----------------------------------------------------------------------------
(* What the remote side can do to one HTTP request *)

Response(status, header, json_ok) ==
    [ exc |-> None, status |-> Some(status), header |-> header, json_ok |-> json_ok ]
Raised(cls) ==
    [ exc |-> Some(cls), status |-> None, header |-> <<>>, json_ok |-> TRUE ]

OtherStatuses == {201, 400, 401, 403, 404, 500, 503}
TransportExceptions ==
    {"ConnectTimeout", "ReadTimeout", "WriteTimeout", "PoolTimeout",
     "ConnectError", "ReadError", "ValueError"}

ServerOutcomes ==
    { Response(200, <<>>, ok) : ok \in BOOLEAN }
      \cup { Response(s, <<>>, TRUE) : s \in OtherStatuses }
      \cup { Response(429, h, TRUE) : h \in RetryAfterHeaders }
      \cup { Raised(e) : e \in TransportExceptions }

-----------------------------------------------------------------------------
(* ConfluenceClient._make_request: one attempt *)

\* What one frame of _make_request does next
Return(body) == [ t |-> "return", body |-> Some(body), exc |-> None, wait |-> None, cause |-> "" ]
Raise(e) == [ t |-> "raise", body |-> None, exc |-> Some(e), wait |-> None, cause |-> "" ]
Sleep(w, cause) == [ t |-> "sleep", body |-> None, exc |-> None, wait |-> Some(w), cause |-> cause ]

\* an off-by-one bound: `retry_count <= self.max_retries`
CanRetryInclusive(retry_count) == retry_count <= max_retries

\* `if retry_count < self.max_retries`
CanRetry(retry_count) == retry_count < max_retries

\* the header parsed with the truthiness test of the wait computation:
\* `int(retry_after) if retry_after and int(retry_after) else None`
RetryAfterSecondsTruthy(retry_after) ==
    IF retry_after # <<>> /\ IntOf(retry_after) # 0
    THEN Some(IntOf(retry_after))
    ELSE None

\* `int(retry_after) if retry_after else None`, given that int() does not raise
RetryAfterSeconds(retry_after) ==
    IF retry_after # <<>> THEN Some(IntOf(retry_after)) ELSE None

\* `retry_after_seconds if retry_after_seconds else (2**retry_count)`:
\* None and 0 are both falsy
RateLimitWait(retry_after_seconds, retry_count) ==
    IF retry_after_seconds # None /\ retry_after_seconds[1] # 0
    THEN retry_after_seconds[1]
    ELSE Pow2(retry_count)

\* the wait computed from the number of the retry about to be made
ConnectionWaitNext(retry_count) == Pow2(retry_count + 1)

\* `wait_time = 2**retry_count` of the two connection handlers
ConnectionWait(retry_count) == Pow2(retry_count)

\* the `elif response.status_code == 429` branch
RateLimited(retry_after, retry_count) ==
    IF retry_after # <<>> /\ ~IntParses(retry_after)
    THEN Raise(LibExc("ValueError"))
    ELSE LET retry_after_seconds == RetryAfterSeconds(retry_after) IN
         IF CanRetry(retry_count)
         THEN Sleep(RateLimitWait(retry_after_seconds, retry_count), "429")
         ELSE Raise(RateLimitError("Rate limit exceeded", retry_after_seconds,
                                   Some(max_retries)))

\* the body of the try statement, from the awaited request on;
\* body is the JSON document the response carries
TryBody(o, retry_count, body) ==
    IF o.exc # None THEN Raise(LibExc(o.exc[1]))
    ELSE LET status_code == o.status[1] IN
         IF status_code = 200
         THEN IF o.json_ok THEN Return(body) ELSE Raise(LibExc("ValueError"))
         ELSE IF status_code = 401 THEN Raise(AuthenticationError("Authentication failed"))
         ELSE IF status_code = 403 THEN Raise(AuthenticationError("Access forbidden"))
         ELSE IF status_code = 404
         THEN Raise(APIError("Resource not found", Some(404), None, None))
         ELSE IF status_code = 429 THEN RateLimited(o.header, retry_count)
         ELSE IF status_code >= 500
         THEN Raise(APIError("Server error", Some(status_code), None, None))
         ELSE Raise(APIError("HTTP error", Some(status_code), None, None))

\* the except clauses with the retrying handler written for
\* httpx.TimeoutException instead of httpx.ConnectTimeout
ExceptClausesRetryAnyTimeout(e, retry_count) ==
    IF IsInstance(e.cls, "TimeoutException")
    THEN IF CanRetry(retry_count)
         THEN Sleep(ConnectionWait(retry_count), "ConnectTimeout")
         ELSE Raise(APIError("Connection timeout", None, Some(max_retries), None))
    ELSE IF IsInstance(e.cls, "ConnectError")
    THEN IF CanRetry(retry_count)
         THEN Sleep(ConnectionWait(retry_count), "ConnectError")
         ELSE Raise(APIError("Connection error", None, Some(max_retries), None))
    ELSE IF IsInstance(e.cls, "RequestError")
    THEN Raise(APIError("Network error", None, None, None))
    ELSE IF \/ IsInstance(e.cls, "AuthenticationError")
            \/ IsInstance(e.cls, "APIError")
            \/ IsInstance(e.cls, "RateLimitError")
    THEN Raise(e)
    ELSE Raise(APIError("Unexpected error", None, None, Some(e.cls)))

\* the except clauses with a last handler that logs and gives an empty
\* document: `except Exception: return {}`
ExceptClausesReturnEmpty(e, retry_count) ==
    IF IsInstance(e.cls, "ConnectTimeout")
    THEN IF CanRetry(retry_count)
         THEN Sleep(ConnectionWait(retry_count), "ConnectTimeout")
         ELSE Raise(APIError("Connection timeout", None, Some(max_retries), None))
    ELSE IF IsInstance(e.cls, "TimeoutException")
    THEN Raise(APIError("Request timed out", None, None, None))
    ELSE IF IsInstance(e.cls, "ConnectError")
    THEN IF CanRetry(retry_count)
         THEN Sleep(ConnectionWait(retry_count), "ConnectError")
         ELSE Raise(APIError("Connection error", None, Some(max_retries), None))
    ELSE IF IsInstance(e.cls, "RequestError")
    THEN Raise(APIError("Network error", None, None, None))
    ELSE IF \/ IsInstance(e.cls, "AuthenticationError")
            \/ IsInstance(e.cls, "APIError")
            \/ IsInstance(e.cls, "RateLimitError")
    THEN Raise(e)
    ELSE Return(0)

\* the except clauses of the try statement, tried in source order
ExceptClauses(e, retry_count) ==
    IF IsInstance(e.cls, "ConnectTimeout")
    THEN IF CanRetry(retry_count)
         THEN Sleep(ConnectionWait(retry_count), "ConnectTimeout")
         ELSE Raise(APIError("Connection timeout", None, Some(max_retries), None))
    ELSE IF IsInstance(e.cls, "TimeoutException")
    THEN Raise(APIError("Request timed out", None, None, None))
    ELSE IF IsInstance(e.cls, "ConnectError")
    THEN IF CanRetry(retry_count)
         THEN Sleep(ConnectionWait(retry_count), "ConnectError")
         ELSE Raise(APIError("Connection error", None, Some(max_retries), None))
    ELSE IF IsInstance(e.cls, "RequestError")
    THEN Raise(APIError("Network error", None, None, None))
    ELSE IF \/ IsInstance(e.cls, "AuthenticationError")
            \/ IsInstance(e.cls, "APIError")
            \/ IsInstance(e.cls, "RateLimitError")
    THEN Raise(e)
    ELSE Raise(APIError("Unexpected error", None, None, Some(e.cls)))

\* try body and except clauses together: what the frame does with outcome o
Attempt(o, retry_count, body) ==
    LET r == TryBody(o, retry_count, body) IN
    IF r.t = "raise" THEN ExceptClauses(r.exc[1], retry_count) ELSE r

\* A frame suspended in `return await self._make_request(...)` receives the
\* inner call's result r.  The 429 branch awaits inside the try body, so an
\* exception passes through the except clauses; the two connection handlers
\* await inside an except clause, so an exception leaves the frame as it is.
ResumeFrame(r, cause, retry_count) ==
    IF r.t = "raise" /\ cause = "429"
    THEN ExceptClauses(r.exc[1], retry_count)
    ELSE r

\* The result r of the innermost frame travels out through the suspended
\* frames (frames[i] is the frame with retry_count = i - 1).  Gives the pair
\* <<result, frames still suspended>>.
RECURSIVE Unwind(_, _)
Unwind(r, frames) ==
    IF frames = <<>> \/ r.t = "sleep" THEN <<r, frames>>
    ELSE LET n == Len(frames) IN
         Unwind(ResumeFrame(r, frames[n], n - 1), SubSeq(frames, 1, n - 1))

-----------------------------------------------------------------------------
(* Authentication strategies: src/auth *)

AuthStrategies == {"APITokenAuth", "OAuth2Auth"}

\* get_auth_headers(): APITokenAuth returns the cached header and cannot fail,
\* OAuth2Auth raises NotImplementedError.  None means "returned headers".
GetAuthHeaders(strategy) ==
    IF strategy = "OAuth2Auth" THEN Some(LibExc("NotImplementedError")) ELSE None

-----------------------------------------------------------------------------
(* State *)

SessionIds == 1..MaxSessions

\* Class constants for API limits
MAX_RESULTS_PER_PAGE == 100
MIN_RESULTS_PER_PAGE == 1

\* the limit arguments callers pass: below, at and above both ends of the range
Limits == {-1, 0, 1, 2, 99, 100, 101, 200}

\* `limit: int = 25` of search_pages, `limit: int = 50` of get_child_pages;
\* the other methods take no limit
DefaultLimit(op) ==
    IF op = "search_pages" THEN Some(25)
    ELSE IF op = "get_child_pages" THEN Some(50)
    ELSE None

Min(a, b) == IF a <= b THEN a ELSE b
Max(a, b) == IF a >= b THEN a ELSE b

\* the clamp with its upper end only
ClampLimitUpperOnly(limit) == Min(limit, MAX_RESULTS_PER_PAGE)

\* limit = min(max(self.MIN_RESULTS_PER_PAGE, limit), self.MAX_RESULTS_PER_PAGE)
ClampLimit(limit) == Min(Max(MIN_RESULTS_PER_PAGE, limit), MAX_RESULTS_PER_PAGE)

\* the "limit" entry of the query parameters the method hands to _make_request
ParamsLimit(p) == IF p.limit = None THEN None ELSE Some(ClampLimit(p.limit[1]))

\* One invocation of a client method by a caller: the method, the page id it
\* is given, the as_markdown flag, whether html_to_markdown raises on the
\* page body during this invocation, and the limit argument.
Op(op, page_id, as_markdown, converter_raises) ==
    [ op |-> op, page_id |-> page_id, as_markdown |-> as_markdown,
      converter_raises |-> converter_raises, limit |-> DefaultLimit(op) ]

\* the same invocation with an explicit limit argument
WithLimit(p, limit) == [p EXCEPT !.limit = Some(limit)]

\* a caller that uses _make_request directly
RequestOps == { Op("_make_request", "", FALSE, FALSE) }

\* a caller that makes no call
NoOps == {}

\* the pages of the remote service and the storage-format body
\* (body.storage.value) of each: one page with markup, one with an empty body
PageIds == {"123", "456"}
PageBody(page_id) == IF page_id = "123" THEN "<h1>Test</h1>" ELSE ""

\* a caller that uses the three page operations, with every combination of
\* arguments and converter behaviour that the code can tell apart
PageOps ==
    { Op("search_pages", "", FALSE, FALSE) }
      \cup { WithLimit(Op("search_pages", "", FALSE, FALSE), l) : l \in Limits }
      \cup { Op("get_child_pages", i, FALSE, FALSE) : i \in PageIds }
      \cup { WithLimit(Op("get_child_pages", i, FALSE, FALSE), l) : i \in PageIds, l \in Limits }
      \cup { Op("get_page_content", i, m, FALSE) : i \in PageIds, m \in BOOLEAN }
      \cup { Op("get_page_content", i, TRUE, TRUE) : i \in {j \in PageIds : PageBody(j) # ""} }

\* an APITokenAuth object after __init__, with or without base_url
NewCredential(base_url) ==
    [ base_url       |-> base_url, \* was a base_url supplied
      authenticated  |-> FALSE,    \* self._authenticated
      pc             |-> "idle",   \* authenticate(): idle | awaiting | done
      before         |-> FALSE,    \* self._authenticated when authenticate() began
      gets           |-> 0,        \* HTTP GETs issued by the running authenticate()
      last           |-> None,     \* the outcome of that GET
      result         |-> None ]    \* what authenticate() returned or raised

\* no conversion in progress
NoConversion ==
    [ stage     |-> "none",  \* none | md (in the base conversion) | done | rerun
      html      |-> <<>>,    \* the argument of convert()
      preprocessed |-> <<>>, \* what _preprocess_html returned
      md_called |-> FALSE,   \* was markdownify's md() invoked
      markdown  |-> None,    \* what md() returned
      result    |-> None,    \* what convert() returned or raised
      again     |-> None ]   \* _postprocess_markdown applied to the result

\* no document being rewritten
NoDocument ==
    [ stage  |-> "none",  \* none | rewritten
      input  |-> <<>>,    \* the html given to _handle_confluence_macros
      output |-> <<>> ]   \* what it returned

\* a logical call that has not been made
IdleCall ==
    [ pc          |-> "idle",  \* idle | awaiting (the response) | sleeping | done
      op          |-> None,    \* the client method invoked
      params      |-> None,    \* the limit in the query parameters of its requests
      retry_count |-> 0,       \* retry_count argument of the innermost frame
      frames      |-> <<>>,    \* the suspended outer frames: what each one retries
      retried     |-> <<>>,    \* the condition behind every retry of the call so far
      requests    |-> 0,       \* HTTP requests issued by this logical call
      last        |-> None,    \* the last outcome an HTTP request of the call had
      waits       |-> <<>>,    \* the asyncio.sleep durations, in order
      result      |-> None,    \* what _make_request returned or raised
      outcome     |-> None ]   \* what the client method returned or raised

Init ==
    /\ max_retries \in 0..MaxRetriesBound
    /\ auth_strategy \in AuthStrategies
    /\ client = None
    /\ sessions = [s \in SessionIds |-> "none"]
    /\ closes = [s \in SessionIds |-> 0]
    /\ scope = "outside"
    /\ exit_path = "none"
    /\ calls = [c \in CallIds |-> IdleCall]
    /\ callers = [c \in CallIds |-> IF c = "c1" THEN RequestOps ELSE NoOps]
    /\ cred = NewCredential(TRUE)
    /\ conv = NoConversion
    /\ doc = NoDocument

-----------------------------------------------------------------------------
(* ConfluenceClient.__aenter__ / __aexit__ / close *)

FreshSessions == {s \in SessionIds : sessions[s] = "none"}

\* `async with client:` is entered: __aenter__ creates the httpx.AsyncClient
\* and then awaits get_auth_headers().  If that raises, the with statement
\* is left without __aexit__ being called.
Enter ==
    /\ scope \in {"outside", "left", "enter_failed"}
    /\ FreshSessions # {}
    /\ LET s == CHOOSE x \in FreshSessions : \A y \in FreshSessions : x <= y IN
       /\ client' = Some(s)
       /\ sessions' = [sessions EXCEPT ![s] = "open"]
    /\ scope' = IF GetAuthHeaders(auth_strategy) # None THEN "enter_failed" ELSE "inside"
    /\ exit_path' = "none"
    /\ UNCHANGED <<callers, cred, conv, doc, max_retries, auth_strategy, closes, calls>>

\* close() up to its await: `if self._client: await self._client.aclose()`
CloseBegin(next_scope, skip_scope) ==
    IF client # None
    THEN /\ sessions' = [sessions EXCEPT ![client[1]] = "closed"]
         /\ closes' = [closes EXCEPT ![client[1]] = @ + 1]
         /\ scope' = next_scope
    ELSE /\ scope' = skip_scope
         /\ UNCHANGED <<sessions, closes>>

\* The body of the with statement ends, normally or by an exception:
\* __aexit__ runs close().
Exit(how) ==
    /\ scope = "inside"
    /\ exit_path' = how
    /\ CloseBegin("closing", "left")
    /\ UNCHANGED <<callers, cred, conv, doc, max_retries, auth_strategy, client, calls>>

\* close() after its await: `self._client = None`
CloseEnd ==
    /\ scope = "closing"
    /\ client' = None
    /\ scope' = "left"
    /\ UNCHANGED <<callers, cred, conv, doc, max_retries, auth_strategy, sessions, closes, exit_path, calls>>

-----------------------------------------------------------------------------
(* ConfluenceClient._make_request as a coroutine *)

\* html_to_markdown(html) as get_page_content sees it: the markdown text, or
\* an exception of the converter
HtmlToMarkdown(html, raises) ==
    IF raises
    THEN Raise(Exc("ConversionError", "Failed to convert content", None, None, None, None))
    ELSE Return("# Test")

\* The PageContent that get_page_content builds
PageContent(page_id, content, content_format) ==
    [ id |-> page_id, content |-> content, content_format |-> content_format ]

\* the handler written as `if e.status_code:`
NotFoundMappingAnyStatus(p, e) ==
    IF IsInstance(e.cls, "APIError")
    THEN IF e.status_code # None
         THEN Raise(PageNotFoundError(p.page_id))
         ELSE Raise(e)
    ELSE Raise(e)

\* `except APIError as e: if e.status_code == 404: raise PageNotFoundError(id);
\* raise` around the _make_request call of get_page_content and get_child_pages
NotFoundMapping(p, e) ==
    IF IsInstance(e.cls, "APIError")
    THEN IF e.status_code = Some(404)
         THEN Raise(PageNotFoundError(p.page_id))
         ELSE Raise(e)
    ELSE Raise(e)

\* the conversion attempted whenever as_markdown is set: html_to_markdown("")
\* returns "", which is then labelled markdown
RenderContentEmptyConverted(p) ==
    LET html_content == PageBody(p.page_id) IN
    IF p.as_markdown
    THEN IF html_content = ""
         THEN Return(PageContent(p.page_id, "", "markdown"))
         ELSE LET m == HtmlToMarkdown(html_content, p.converter_raises) IN
              IF m.t = "raise"
              THEN Return(PageContent(p.page_id, html_content, "html"))
              ELSE Return(PageContent(p.page_id, m.body[1], "markdown"))
    ELSE Return(PageContent(p.page_id, html_content, "html"))

\* the conversion without its try statement
RenderContentUnguarded(p) ==
    LET html_content == PageBody(p.page_id) IN
    IF p.as_markdown /\ html_content # ""
    THEN LET m == HtmlToMarkdown(html_content, p.converter_raises) IN
         IF m.t = "raise"
         THEN m
         ELSE Return(PageContent(p.page_id, m.body[1], "markdown"))
    ELSE Return(PageContent(p.page_id, html_content, "html"))

\* get_page_content after the request: `if as_markdown and html_content:` try
\* the converter, fall back to the markup on any exception
RenderContent(p) ==
    LET html_content == PageBody(p.page_id) IN
    IF p.as_markdown /\ html_content # ""
    THEN LET m == HtmlToMarkdown(html_content, p.converter_raises) IN
         IF m.t = "raise"
         THEN Return(PageContent(p.page_id, html_content, "html"))
         ELSE Return(PageContent(p.page_id, m.body[1], "markdown"))
    ELSE Return(PageContent(p.page_id, html_content, "html"))

\* What the client method makes of the result r of its _make_request call
Operation(p, r) ==
    IF p.op \in {"_make_request", "search_pages"} THEN r
    ELSE IF r.t = "raise" THEN NotFoundMapping(p, r.exc[1])
    ELSE IF p.op = "get_page_content" THEN RenderContent(p)
    ELSE r

\* The innermost frame of call c produced r (a return, a raise or a sleep)
\* after the call record became k: suspend in asyncio.sleep, or finish.
Settle(c, k, r) ==
    \E v \in {r} : \E u \in {Unwind(v, k.frames)} :
    IF u[1].t = "sleep"
    THEN calls' = [calls EXCEPT ![c] =
            [k EXCEPT !.pc = "sleeping",
                      !.retry_count = Len(u[2]),
                      !.frames = Append(u[2], u[1].cause),
                      !.retried = Append(k.retried, u[1].cause),
                      !.waits = Append(k.waits, u[1].wait[1])]]
    ELSE calls' = [calls EXCEPT ![c] =
            [k EXCEPT !.pc = "done", !.frames = <<>>, !.result = Some(u[1]),
                      !.outcome = Some(Operation(k.op[1], u[1]))]]

\* the entry without the `if not self._client` guard: the request on None
\* fails inside the try statement
MakeRequestUnguarded(c, k) ==
    IF client = None \/ sessions[client[1]] = "closed"
    THEN Settle(c, k, Attempt(Raised("RuntimeError"), k.retry_count, 0))
    ELSE IF GetAuthHeaders(auth_strategy) # None
    THEN Settle(c, k, Raise(GetAuthHeaders(auth_strategy)[1]))
    ELSE calls' = [calls EXCEPT ![c] =
            [k EXCEPT !.pc = "awaiting", !.requests = k.requests + 1]]

\* Entry of one frame of _make_request, up to `await self._client.request`.
MakeRequest(c, k) ==
    IF client = None
    THEN Settle(c, k, Raise(APIError("Client not initialized", None, None, None)))
    ELSE IF GetAuthHeaders(auth_strategy) # None
    THEN Settle(c, k, Raise(GetAuthHeaders(auth_strategy)[1]))
    ELSE IF sessions[client[1]] = "closed"
    THEN \* httpx refuses to send on a closed client: RuntimeError, no request
         Settle(c, k, Attempt(Raised("RuntimeError"), k.retry_count, 0))
    ELSE calls' = [calls EXCEPT ![c] =
            [k EXCEPT !.pc = "awaiting", !.requests = k.requests + 1]]

\* _make_request run under a lock held by the client for the whole call,
\* sleeps included: a call starts only when no other call is in progress
CallLocked(c) ==
    /\ calls[c].pc = "idle"
    /\ \A d \in CallIds \ {c} : calls[d].pc \in {"idle", "done"}
    /\ \E p \in callers[c] :
         MakeRequest(c, [calls[c] EXCEPT !.op = Some(p), !.params = ParamsLimit(p)])
    /\ UNCHANGED <<callers, cred, conv, doc, max_retries, auth_strategy, client, sessions, closes, scope, exit_path>>

\* A caller invokes a client method, which starts a logical call:
\* _make_request(..., retry_count=0)
Call(c) ==
    /\ calls[c].pc = "idle"
    /\ \E p \in callers[c] :
         MakeRequest(c, [calls[c] EXCEPT !.op = Some(p), !.params = ParamsLimit(p)])
    /\ UNCHANGED <<callers, cred, conv, doc, max_retries, auth_strategy, client, sessions, closes, scope, exit_path>>

\* The awaited request completes with outcome o; the n-th request of the call
\* is answered with JSON document n.
Respond(c, o) ==
    /\ calls[c].pc = "awaiting"
    /\ LET k == [calls[c] EXCEPT !.last = Some(o)] IN
       Settle(c, k, Attempt(o, k.retry_count, k.requests))
    /\ UNCHANGED <<callers, cred, conv, doc, max_retries, auth_strategy, client, sessions, closes, scope, exit_path>>

\* the retry of a connection failure passing `retry_count=retry_count`
WakeConnectionUncounted(c) ==
    /\ calls[c].pc = "sleeping"
    /\ MakeRequest(c, [calls[c] EXCEPT !.retry_count =
            IF calls[c].frames[Len(calls[c].frames)] = "429" THEN @ + 1 ELSE @])
    /\ UNCHANGED <<callers, cred, conv, doc, max_retries, auth_strategy, client, sessions, closes, scope, exit_path>>

\* the retry counter kept on the client object instead of in the argument:
\* `self._retry_count += 1` counts the retries of every call in progress
WakeSharedCounter(c) ==
    /\ calls[c].pc = "sleeping"
    /\ LET d == CHOOSE x \in CallIds : x # c IN
       MakeRequest(c, [calls[c] EXCEPT !.retry_count = @ + calls[d].retry_count + 1])
    /\ UNCHANGED <<callers, cred, conv, doc, max_retries, auth_strategy, client, sessions, closes, scope, exit_path>>

\* asyncio.sleep returns: `return await self._make_request(..., retry_count + 1)`
Wake(c) ==
    /\ calls[c].pc = "sleeping"
    /\ MakeRequest(c, [calls[c] EXCEPT !.retry_count = @ + 1])
    /\ UNCHANGED <<callers, cred, conv, doc, max_retries, auth_strategy, client, sessions, closes, scope, exit_path>>

\* The caller has its result and may make another logical call.
Finish(c) ==
    /\ calls[c].pc = "done"
    /\ calls' = [calls EXCEPT ![c] = IdleCall]
    /\ UNCHANGED <<callers, cred, conv, doc, max_retries, auth_strategy, client, sessions, closes, scope, exit_path>>

Next ==
    \/ Enter
    \/ \E how \in {"normal", "exception"} : Exit(how)
    \/ CloseEnd
    \/ \E c \in CallIds : Call(c)
    \/ \E c \in CallIds, o \in ServerOutcomes : Respond(c, o)
    \/ \E c \in CallIds : Wake(c)
    \/ \E c \in CallIds : Finish(c)

Spec == Init /\ [][Next]_vars

\* The event loop completes what a call awaits: the awaited request returns a
\* response or raises (httpx.AsyncClient is created with a timeout), and
\* asyncio.sleep returns when its delay has passed.
Fairness ==
    \A c \in CallIds :
        /\ WF_vars(\E o \in ServerOutcomes : Respond(c, o))
        /\ WF_vars(Wake(c))

\* the max_retries values explored under fairness
LiveRetries == {0, 1, 2}

InitLive ==
    /\ max_retries \in LiveRetries
    /\ auth_strategy \in AuthStrategies
    /\ client = None
    /\ sessions = [s \in SessionIds |-> "none"]
    /\ closes = [s \in SessionIds |-> 0]
    /\ scope = "outside"
    /\ exit_path = "none"
    /\ calls = [c \in CallIds |-> IdleCall]
    /\ callers = [c \in CallIds |-> IF c = "c1" THEN RequestOps ELSE NoOps]
    /\ cred = NewCredential(TRUE)
    /\ conv = NoConversion
    /\ doc = NoDocument

SpecLive == InitLive /\ [][Next]_vars /\ Fairness

-----------------------------------------------------------------------------
(* __aenter__ and close() called outside the one-block discipline *)

\* __aenter__ runs again while the block is open (a second `async with` on
\* the same client, or a direct call): `self._client = httpx.AsyncClient(...)`
\* is assigned without a look at the client already held
EnterAgain ==
    /\ scope = "inside"
    /\ FreshSessions # {}
    /\ LET s == CHOOSE x \in FreshSessions : \A y \in FreshSessions : x <= y IN
       /\ client' = Some(s)
       /\ sessions' = [sessions EXCEPT ![s] = "open"]
    /\ scope' = IF GetAuthHeaders(auth_strategy) # None THEN "enter_failed" ELSE "inside"
    /\ UNCHANGED <<callers, cred, conv, doc, max_retries, auth_strategy, closes, exit_path, calls>>

\* close() is called directly inside the block, up to its await
DirectClose ==
    /\ scope = "inside"
    /\ CloseBegin("direct_closing", "inside")
    /\ UNCHANGED <<callers, cred, conv, doc, max_retries, auth_strategy, client, exit_path, calls>>

\* that close() after its await: `self._client = None`; the block goes on
DirectCloseEnd ==
    /\ scope = "direct_closing"
    /\ client' = None
    /\ scope' = "inside"
    /\ UNCHANGED <<callers, cred, conv, doc, max_retries, auth_strategy, sessions, closes, exit_path, calls>>

\* a second close() runs while the first is suspended in aclose(): it still
\* sees self._client, its own aclose() finds the httpx client closed and
\* returns without suspending, and it sets self._client = None
CloseConcurrent ==
    /\ scope \in {"closing", "direct_closing"}
    /\ client # None
    /\ client' = None
    /\ UNCHANGED <<callers, cred, conv, doc, max_retries, auth_strategy, sessions, closes, scope, exit_path, calls>>

NextLifecycle ==
    \/ Enter
    \/ EnterAgain
    \/ \E how \in {"normal", "exception"} : Exit(how)
    \/ CloseEnd
    \/ DirectClose
    \/ DirectCloseEnd
    \/ CloseConcurrent
    \/ \E c \in CallIds : Call(c)
    \/ \E c \in CallIds, o \in ServerOutcomes : Respond(c, o)
    \/ \E c \in CallIds : Wake(c)
    \/ \E c \in CallIds : Finish(c)

SpecLifecycle == InitLive /\ [][NextLifecycle]_vars

\* Two callers share the client and its session (the MCP tools of
\* src/confluence/tools.py run as concurrent tasks over one ConfluenceClient).
InitConc ==
    /\ max_retries \in ConcRetries
    /\ auth_strategy \in AuthStrategies
    /\ client = None
    /\ sessions = [s \in SessionIds |-> "none"]
    /\ closes = [s \in SessionIds |-> 0]
    /\ scope = "outside"
    /\ exit_path = "none"
    /\ calls = [c \in CallIds |-> IdleCall]
    /\ callers = [c \in CallIds |-> RequestOps]
    /\ cred = NewCredential(TRUE)
    /\ conv = NoConversion
    /\ doc = NoDocument

SpecConc == InitConc /\ [][Next]_vars

\* One caller uses the page operations of the client, as the MCP tools do.
InitOps ==
    /\ max_retries \in 0..MaxOpsRetries
    /\ auth_strategy \in AuthStrategies
    /\ client = None
    /\ sessions = [s \in SessionIds |-> "none"]
    /\ closes = [s \in SessionIds |-> 0]
    /\ scope = "outside"
    /\ exit_path = "none"
    /\ calls = [c \in CallIds |-> IdleCall]
    /\ callers = [c \in CallIds |-> IF c = "c1" THEN PageOps ELSE NoOps]
    /\ cred = NewCredential(TRUE)
    /\ conv = NoConversion
    /\ doc = NoDocument

SpecOps == InitOps /\ [][Next]_vars

-----------------------------------------------------------------------------
(* APITokenAuth.authenticate / OAuth2Auth.authenticate *)

\* the body of the try statement of authenticate(), from the awaited GET on
AuthTryBody(o) ==
    IF o.exc # None THEN Raise(LibExc(o.exc[1]))
    ELSE LET status_code == o.status[1] IN
         IF status_code = 200 THEN Return(TRUE)
         ELSE IF status_code = 401 THEN Raise(AuthenticationError("Invalid credentials"))
         ELSE IF status_code = 403 THEN Raise(AuthenticationError("Access forbidden"))
         ELSE IF status_code = 429
         THEN IF o.header # <<>> /\ ~IntParses(o.header)
              THEN Raise(LibExc("ValueError"))
              ELSE Raise(RateLimitError("Rate limit exceeded during authentication",
                                        RetryAfterSeconds(o.header), None))
         ELSE Raise(APIError("Authentication failed with status", Some(status_code),
                             None, None))

\* the except clauses of authenticate(), tried in source order
AuthExceptClauses(e) ==
    IF IsInstance(e.cls, "TimeoutException")
    THEN Raise(APIError("Authentication request timed out", None, None, None))
    ELSE IF IsInstance(e.cls, "RequestError")
    THEN Raise(APIError("Network error during authentication", None, None, None))
    ELSE IF \/ IsInstance(e.cls, "AuthenticationError")
            \/ IsInstance(e.cls, "APIError")
            \/ IsInstance(e.cls, "RateLimitError")
    THEN Raise(e)
    ELSE Raise(APIError("Unexpected error during authentication", None, None, Some(e.cls)))

\* authenticate() is called, up to its first await on the network:
\* OAuth2Auth raises NotImplementedError; APITokenAuth without base_url sets
\* the flag and returns True; with base_url it issues the GET.
AuthBegin ==
    /\ cred.pc = "idle"
    /\ cred' =
         IF auth_strategy = "OAuth2Auth"
         THEN [cred EXCEPT !.pc = "done", !.before = cred.authenticated,
                           !.result = Some(Raise(LibExc("NotImplementedError")))]
         ELSE IF ~cred.base_url
         THEN [cred EXCEPT !.pc = "done", !.before = cred.authenticated,
                           !.authenticated = TRUE, !.result = Some(Return(TRUE))]
         ELSE [cred EXCEPT !.pc = "awaiting", !.before = cred.authenticated,
                           !.gets = cred.gets + 1]
    /\ UNCHANGED <<max_retries, auth_strategy, client, sessions, closes, scope,
                   exit_path, calls, callers, conv, doc>>

\* authenticate() with error paths that clear the flag:
\* `self._authenticated = False` before every raise
AuthRespondResetting(o) ==
    /\ cred.pc = "awaiting"
    /\ LET t == AuthTryBody(o)
           r == IF t.t = "raise" THEN AuthExceptClauses(t.exc[1]) ELSE t
       IN cred' = [cred EXCEPT !.pc = "done", !.last = Some(o), !.result = Some(r),
                               !.authenticated = (t.t = "return")]
    /\ UNCHANGED <<max_retries, auth_strategy, client, sessions, closes, scope,
                   exit_path, calls, callers, conv, doc>>

\* The GET of authenticate() completes with outcome o.
AuthRespond(o) ==
    /\ cred.pc = "awaiting"
    /\ LET t == AuthTryBody(o)
           r == IF t.t = "raise" THEN AuthExceptClauses(t.exc[1]) ELSE t
       IN cred' = [cred EXCEPT !.pc = "done", !.last = Some(o), !.result = Some(r),
                               !.authenticated = IF t.t = "return" THEN TRUE ELSE @]
    /\ UNCHANGED <<max_retries, auth_strategy, client, sessions, closes, scope,
                   exit_path, calls, callers, conv, doc>>

\* The caller of authenticate() has its result; the object keeps its flag.
AuthFinish ==
    /\ cred.pc = "done"
    /\ cred' = [NewCredential(cred.base_url) EXCEPT !.authenticated = cred.authenticated]
    /\ UNCHANGED <<max_retries, auth_strategy, client, sessions, closes, scope,
                   exit_path, calls, callers, conv, doc>>

\* The credential and the client scope built on it, as main.lifespan builds
\* them; base_url may or may not have been given to the credential.
InitAuth ==
    /\ max_retries = DEFAULT_MAX_RETRIES
    /\ auth_strategy \in AuthStrategies
    /\ client = None
    /\ sessions = [s \in SessionIds |-> "none"]
    /\ closes = [s \in SessionIds |-> 0]
    /\ scope = "outside"
    /\ exit_path = "none"
    /\ calls = [c \in CallIds |-> IdleCall]
    /\ callers = [c \in CallIds |-> NoOps]
    /\ cred \in {NewCredential(b) : b \in BOOLEAN}
    /\ conv = NoConversion
    /\ doc = NoDocument

NextAuth ==
    \/ Enter
    \/ \E how \in {"normal", "exception"} : Exit(how)
    \/ CloseEnd
    \/ AuthBegin
    \/ \E o \in ServerOutcomes : AuthRespond(o)
    \/ AuthFinish

SpecAuth == InitAuth /\ [][NextAuth]_vars

-----------------------------------------------------------------------------
(* ConfluenceHTMLConverter.convert and _postprocess_markdown, on texts that
   are sequences of characters *)

NL == "\n"

\* md() returns every text over the alphabet up to this length
MaxLen == 5

\* the characters of the markdown texts: newline, space, the heading mark
\* and one ordinary character
MdAlphabet == {NL, " ", "#", "a"}

\* stands for the backquote character, which a TLA+ string cannot hold
Backquote == "^"

\* the code fence: three backquotes
Fence == <<Backquote, Backquote, Backquote>>

\* texts with a code fence next to blank lines
FenceTexts ==
    { Fence \o <<NL, NL, "a">>,
      <<"a", NL, NL>> \o Fence,
      Fence \o <<NL, " ", NL, NL, "a">>,
      Fence \o <<NL, "a", NL>> \o Fence }

\* texts with a line of spaces among blank lines
BlankLineTexts ==
    { <<"a", NL, " ", NL, NL, "a">>,
      <<"#", " ", "a", NL, NL, " ", NL, "a">> }

\* what md() may return: every text over the alphabet up to MaxLen, and the
\* longer texts above
MarkdownTexts ==
    UNION { [1..n -> MdAlphabet] : n \in 0..MaxLen }
      \cup FenceTexts \cup BlankLineTexts

\* arguments of convert(): the empty string, two whitespace-only strings
\* and one with text; none contains markup
HtmlInputs == { <<>>, <<" ", " ", " ">>, <<" ", NL>>, <<"a">> }

\* str.strip() / str.rstrip() whitespace, within the alphabet
IsSpace(ch) == ch \in {" ", NL}

\* re.sub(r"\n{3,}", "\n\n", markdown): a run of three or more newlines
\* becomes two
RECURSIVE CollapseNewlines(_)
CollapseNewlines(s) ==
    IF Len(s) = 0 THEN <<>>
    ELSE LET r == CollapseNewlines(SubSeq(s, 1, Len(s) - 1))
             ch == s[Len(s)]
         IN IF ch = NL /\ Len(r) >= 2 /\ r[Len(r)] = NL /\ r[Len(r) - 1] = NL
            THEN r
            ELSE Append(r, ch)

\* s[i] is a space with nothing but spaces between it and the end of its line
IsTrailing(s, i) ==
    /\ s[i] = " "
    /\ \A j \in i..Len(s) : (\A k \in i..j : s[k] # NL) => s[j] = " "

\* "\n".join(line.rstrip() for line in cleaned.split("\n"))
RECURSIVE RstripFrom(_, _)
RstripFrom(s, i) ==
    IF i > Len(s) THEN <<>>
    ELSE IF IsTrailing(s, i) THEN RstripFrom(s, i + 1)
    ELSE <<s[i]>> \o RstripFrom(s, i + 1)

RstripLines(s) == RstripFrom(s, 1)

\* the number of consecutive "#" from position i
HashRun(s, i) ==
    Cardinality({ n \in 1..(Len(s) - i + 1) : \A k \in i..(i + n - 1) : s[k] = "#" })

\* the pattern `#{1,6} ` matches at position i
HeadingAt(s, i) ==
    LET h == HashRun(s, i) IN
    h \in 1..6 /\ i + h <= Len(s) /\ s[i + h] = " "

\* re.sub(r"([^\n])\n(#{1,6} )", r"\1\n\n\2", cleaned), scanning from i
RECURSIVE BlankBeforeHeadingFrom(_, _)
BlankBeforeHeadingFrom(s, i) ==
    IF i > Len(s) THEN <<>>
    ELSE IF s[i] # NL /\ i + 1 <= Len(s) /\ s[i + 1] = NL /\ HeadingAt(s, i + 2)
    THEN LET h == HashRun(s, i + 2) IN
         <<s[i], NL, NL>> \o SubSeq(s, i + 2, i + 2 + h)
             \o BlankBeforeHeadingFrom(s, i + 3 + h)
    ELSE <<s[i]>> \o BlankBeforeHeadingFrom(s, i + 1)

\* the position of the first newline at or after i, Len(s) + 1 if none
LineEnd(s, i) ==
    LET ends == { j \in i..Len(s) : s[j] = NL } IN
    IF ends = {} THEN Len(s) + 1
    ELSE CHOOSE j \in ends : \A k \in ends : j <= k

\* the pattern `(#{1,6} .+)\n([^\n#])` matches at position i
HeadingLineAt(s, i) ==
    /\ HeadingAt(s, i)
    /\ LET b == i + HashRun(s, i) + 1
           e == LineEnd(s, b)
       IN e > b /\ e + 1 <= Len(s) /\ s[e + 1] \notin {NL, "#"}

\* re.sub(r"(#{1,6} .+)\n([^\n#])", r"\1\n\n\2", cleaned), scanning from i
RECURSIVE BlankAfterHeadingFrom(_, _)
BlankAfterHeadingFrom(s, i) ==
    IF i > Len(s) THEN <<>>
    ELSE IF HeadingLineAt(s, i)
    THEN LET e == LineEnd(s, i + HashRun(s, i) + 1) IN
         SubSeq(s, i, e) \o <<NL, s[e + 1]>> \o BlankAfterHeadingFrom(s, e + 2)
    ELSE <<s[i]>> \o BlankAfterHeadingFrom(s, i + 1)

\* re.sub of a literal pattern by a literal replacement, scanning from i
RECURSIVE ReplaceFrom(_, _, _, _)
ReplaceFrom(s, pat, by, i) ==
    IF i > Len(s) THEN <<>>
    ELSE IF i + Len(pat) - 1 <= Len(s) /\ SubSeq(s, i, i + Len(pat) - 1) = pat
    THEN by \o ReplaceFrom(s, pat, by, i + Len(pat))
    ELSE <<s[i]>> \o ReplaceFrom(s, pat, by, i + 1)

\* str.strip()
Strip(s) ==
    LET inked == { i \in 1..Len(s) : ~IsSpace(s[i]) } IN
    IF inked = {} THEN <<>>
    ELSE SubSeq(s, CHOOSE i \in inked : \A j \in inked : i <= j,
                   CHOOSE i \in inked : \A j \in inked : i >= j)

\* ConfluenceHTMLConverter._postprocess_markdown
PostprocessMarkdown(markdown) ==
    LET c1 == CollapseNewlines(markdown)
        c2 == RstripLines(c1)
        c3 == BlankBeforeHeadingFrom(c2, 1)
        c4 == BlankAfterHeadingFrom(c3, 1)
        c5 == ReplaceFrom(c4, Fence \o <<NL, NL>>, Fence \o <<NL>>, 1)
        c6 == ReplaceFrom(c5, <<NL, NL>> \o Fence, <<NL>> \o Fence, 1)
    IN Strip(c6)

\* _preprocess_html on a text without markup: every pattern of the macro,
\* link and image rewriting begins with "<ac:", so no substitution applies
\* to the texts of HtmlInputs
PreprocessPlainText(html) == html

\* convert() with the guard written `if not html.strip()`
ConvertBeginStripped(html) ==
    /\ conv.stage = "none"
    /\ conv' = IF Strip(html) = <<>>
               THEN [conv EXCEPT !.stage = "done", !.html = html,
                                 !.result = Some(Return(<<>>))]
               ELSE [conv EXCEPT !.stage = "md", !.html = html, !.md_called = TRUE]
    /\ UNCHANGED <<max_retries, auth_strategy, client, sessions, closes, scope,
                   exit_path, calls, callers, cred, doc>>

\* convert(html) up to the call of md(): `if not html: return ""`, then
\* _preprocess_html and md(preprocessed)
ConvertBegin(html) ==
    /\ conv.stage = "none"
    /\ conv' = IF html = <<>>
               THEN [conv EXCEPT !.stage = "done", !.html = html,
                                 !.result = Some(Return(<<>>))]
               ELSE [conv EXCEPT !.stage = "md", !.html = html,
                                 !.preprocessed = PreprocessPlainText(html),
                                 !.md_called = TRUE]
    /\ UNCHANGED <<max_retries, auth_strategy, client, sessions, closes, scope,
                   exit_path, calls, callers, cred, doc>>

\* md() returns the text m: convert() returns _postprocess_markdown(m)
MdReturn(m) ==
    /\ conv.stage = "md"
    /\ conv' = [conv EXCEPT !.stage = "done", !.markdown = Some(m),
                            !.result = Some(Return(PostprocessMarkdown(m)))]
    /\ UNCHANGED <<max_retries, auth_strategy, client, sessions, closes, scope,
                   exit_path, calls, callers, cred, doc>>

\* md() raises: `except Exception` raises ConversionError
MdRaise ==
    /\ conv.stage = "md"
    /\ conv' = [conv EXCEPT !.stage = "done",
                  !.result = Some(Raise(Exc("ConversionError", "Failed to convert content",
                                            None, None, None, Some("Exception"))))]
    /\ UNCHANGED <<max_retries, auth_strategy, client, sessions, closes, scope,
                   exit_path, calls, callers, cred, doc>>

\* _postprocess_markdown is run again on the text convert() returned
Rerun ==
    /\ conv.stage = "done"
    /\ conv.result[1].t = "return"
    /\ conv' = [conv EXCEPT !.stage = "rerun",
                            !.again = Some(PostprocessMarkdown(conv.result[1].body[1]))]
    /\ UNCHANGED <<max_retries, auth_strategy, client, sessions, closes, scope,
                   exit_path, calls, callers, cred, doc>>

\* the converter object keeps nothing of a conversion
ConvReset ==
    /\ conv.stage \in {"done", "rerun"}
    /\ conv' = NoConversion
    /\ UNCHANGED <<max_retries, auth_strategy, client, sessions, closes, scope,
                   exit_path, calls, callers, cred, doc>>

InitConv ==
    /\ max_retries = DEFAULT_MAX_RETRIES
    /\ auth_strategy = "APITokenAuth"
    /\ client = None
    /\ sessions = [s \in SessionIds |-> "none"]
    /\ closes = [s \in SessionIds |-> 0]
    /\ scope = "outside"
    /\ exit_path = "none"
    /\ calls = [c \in CallIds |-> IdleCall]
    /\ callers = [c \in CallIds |-> NoOps]
    /\ cred = NewCredential(TRUE)
    /\ conv = NoConversion
    /\ doc = NoDocument

NextConv ==
    \/ \E html \in HtmlInputs : ConvertBegin(html)
    \/ \E m \in MarkdownTexts : MdReturn(m)
    \/ MdRaise
    \/ Rerun
    \/ ConvReset

SpecConv == InitConv /\ [][NextConv]_vars

-----------------------------------------------------------------------------
(* ConfluenceHTMLConverter._handle_confluence_macros, on documents that are
   sequences of tags and texts *)

\* the documents of the model are built from up to MaxElems elements
MaxElems == 3

\* <ac:structured-macro ac:name="NAME" ...> and its self-closing form
\* <ac:structured-macro ac:name="NAME" .../>
OpenTag(name) == [ tag |-> "open", name |-> name ]
SelfClosingTag(name) == [ tag |-> "self", name |-> name ]
\* </ac:structured-macro>
CloseTag == [ tag |-> "close", name |-> "" ]
\* <ac:rich-text-body> and </ac:rich-text-body>
BodyOpen == [ tag |-> "body", name |-> "" ]
BodyClose == [ tag |-> "/body", name |-> "" ]
\* <ac:plain-text-body><![CDATA[...]]></ac:plain-text-body>
PlainTextBody == [ tag |-> "source", name |-> "" ]
\* markup that holds no macro tag, such as <p>Content before</p>
Text(name) == [ tag |-> "text", name |-> name ]

\* what the replacement functions produce
CodeBlock(name) == [ tag |-> "fenced", name |-> name ]
QuoteHeader(name) == [ tag |-> "quote-header", name |-> name ]
QuoteLine(name) == [ tag |-> "quote-line", name |-> name ]
QuoteCode(name) == [ tag |-> "quote-code", name |-> name ]

\* the toc macro in its two forms
TocElement == <<OpenTag("toc"), CloseTag>>
TocSelfClosing == <<SelfClosingTag("toc")>>

\* the code macro
CodeElement == <<OpenTag("code"), PlainTextBody, CloseTag>>

\* rich-text bodies: a paragraph, alone or next to a toc macro, and a code
\* macro, alone or after a paragraph
Bodies ==
    { <<Text("p2")>>,
      <<Text("p2")>> \o TocElement,
      TocSelfClosing \o <<Text("p2")>>,
      CodeElement,
      <<Text("p2")>> \o CodeElement }

\* the well-formed elements a document is made of: paragraphs, the toc
\* macro, a code macro, and an info macro and an unrecognised macro ("panel")
\* with each body
Elements ==
    { <<Text("p1")>>, <<Text("p3")>>, TocElement, TocSelfClosing, CodeElement }
      \cup { <<OpenTag(n), BodyOpen>> \o b \o <<BodyClose, CloseTag>> :
                n \in {"info", "panel"}, b \in Bodies }

RECURSIVE Concat(_)
Concat(es) == IF es = <<>> THEN <<>> ELSE Head(es) \o Concat(Tail(es))

Documents ==
    { Concat(es) : es \in UNION { [1..n -> Elements] : n \in 0..MaxElems } }

\* the position of the first </ac:structured-macro> after position i, or 0:
\* where the non-greedy `.*?</ac:structured-macro>` ends
NextClose(d, i) ==
    LET js == { j \in (i + 1)..Len(d) : d[j] = CloseTag } IN
    IF js = {} THEN 0 ELSE CHOOSE j \in js : \A k \in js : j <= k

\* `<ac:structured-macro ac:name="NAME"[^>]*>` matches the tag tok; [^>]*
\* also takes the "/" of a self-closing tag
MatchesOpen(tok, names) == tok.tag \in {"open", "self"} /\ tok.name \in names

\* _extract_macro_body(full_match, "rich-text-body")
ExtractMacroBody(m) ==
    LET as == { a \in 1..Len(m) : m[a] = BodyOpen /\ \E b \in (a + 1)..Len(m) : m[b] = BodyClose } IN
    IF as = {} THEN <<>>
    ELSE LET a == CHOOSE x \in as : \A y \in as : x <= y
             bs == { b \in (a + 1)..Len(m) : m[b] = BodyClose }
             b == CHOOSE x \in bs : \A y \in bs : x <= y
         IN SubSeq(m, a + 1, b - 1)

\* md(body) quoted line by line: markdownify keeps the text, that of a code
\* block the code pass has written included, and drops the tags it does not
\* know
RECURSIVE QuoteLines(_)
QuoteLines(body) ==
    IF body = <<>> THEN <<>>
    ELSE IF Head(body).tag = "text"
    THEN <<QuoteLine(Head(body).name)>> \o QuoteLines(Tail(body))
    ELSE IF Head(body).tag = "fenced"
    THEN <<QuoteCode(Head(body).name)>> \o QuoteLines(Tail(body))
    ELSE QuoteLines(Tail(body))

\* replace_panel_macro
ReplacePanelMacro(name, m) ==
    LET body == ExtractMacroBody(m) IN
    IF QuoteLines(body) = <<>>
    THEN <<QuoteHeader(name), QuoteLine("")>>
    ELSE <<QuoteHeader(name)>> \o QuoteLines(body)

\* replace_code_macro
ReplaceCodeMacro(m) ==
    IF \E i \in 1..Len(m) : m[i] = PlainTextBody
    THEN <<CodeBlock("source")>>
    ELSE <<CodeBlock("")>>

\* the replacement of one match m by the pass `kind`
Replacement(kind, m) ==
    IF kind = "code" THEN ReplaceCodeMacro(m)
    ELSE IF kind = "toc" THEN <<>>
    ELSE IF kind = "other" THEN ExtractMacroBody(m)
    ELSE ReplacePanelMacro(kind, m)

\* re.sub(pattern of the pass, replacement, processed, flags=re.DOTALL),
\* scanning from position i
RECURSIVE SubFrom(_, _, _, _)
SubFrom(d, i, names, kind) ==
    IF i > Len(d) THEN <<>>
    ELSE IF MatchesOpen(d[i], names) /\ NextClose(d, i) # 0
    THEN LET j == NextClose(d, i) IN
         Replacement(kind, SubSeq(d, i, j)) \o SubFrom(d, j + 1, names, kind)
    ELSE <<d[i]>> \o SubFrom(d, i + 1, names, kind)

MacroNames == {"code", "info", "warning", "note", "tip", "toc", "panel"}

\* the loop over macro_replacements: info, warning, note, tip
RECURSIVE PanelPasses(_, _)
PanelPasses(d, names) ==
    IF names = <<>> THEN d
    ELSE PanelPasses(SubFrom(d, 1, {Head(names)}, Head(names)), Tail(names))

\* _handle_confluence_macros: the passes in source order
HandleConfluenceMacros(d) ==
    LET c1 == SubFrom(d, 1, {"code"}, "code")
        c2 == PanelPasses(c1, <<"info", "warning", "note", "tip">>)
        c3 == SubFrom(c2, 1, {"toc"}, "toc")
    IN SubFrom(c3, 1, MacroNames, "other")

\* _handle_confluence_macros(html) is called on the document d
RewriteMacros(d) ==
    /\ doc.stage = "none"
    /\ doc' = [ stage |-> "rewritten", input |-> d, output |-> HandleConfluenceMacros(d) ]
    /\ UNCHANGED <<max_retries, auth_strategy, client, sessions, closes, scope,
                   exit_path, calls, callers, cred, conv>>

\* the converter keeps nothing of a document
DocReset ==
    /\ doc.stage = "rewritten"
    /\ doc' = NoDocument
    /\ UNCHANGED <<max_retries, auth_strategy, client, sessions, closes, scope,
                   exit_path, calls, callers, cred, conv>>

InitMacros ==
    /\ max_retries = DEFAULT_MAX_RETRIES
    /\ auth_strategy = "APITokenAuth"
    /\ client = None
    /\ sessions = [s \in SessionIds |-> "none"]
    /\ closes = [s \in SessionIds |-> 0]
    /\ scope = "outside"
    /\ exit_path = "none"
    /\ calls = [c \in CallIds |-> IdleCall]
    /\ callers = [c \in CallIds |-> NoOps]
    /\ cred = NewCredential(TRUE)
    /\ conv = NoConversion
    /\ doc = NoDocument

NextMacros ==
    \/ \E d \in Documents : RewriteMacros(d)
    \/ DocReset

SpecMacros == InitMacros /\ [][NextMacros]_vars

-----------------------------------------------------------------------------
(* ConfluenceHTMLConverter._handle_confluence_links, on documents that are
   sequences of tags and texts *)

\* <ac:link> and </ac:link>
LinkOpen == [ tag |-> "ac:link", name |-> "", text |-> "", frag |-> FALSE ]
LinkClose == [ tag |-> "/ac:link", name |-> "", text |-> "", frag |-> FALSE ]
\* <ri:page ri:content-title="TITLE" />, and <ri:page /> when title is ""
PageRef(title) == [ tag |-> "ri:page", name |-> title, text |-> "", frag |-> FALSE ]
\* <ri:url ri:value="URL" />, and <ri:url /> when value is ""
UrlRef(value) == [ tag |-> "ri:url", name |-> value, text |-> "", frag |-> FALSE ]
\* text without markup
PlainText(text) == [ tag |-> "plain", name |-> "", text |-> text, frag |-> FALSE ]
\* text inside an element, such as <strong>Bold</strong>
MarkedUp(text) == [ tag |-> "markup", name |-> "", text |-> text, frag |-> FALSE ]
\* <a href="#TITLE">TEXT</a> and <a href="URL">TEXT</a>
PageAnchor(title, text) == [ tag |-> "a", name |-> title, text |-> text, frag |-> TRUE ]
UrlAnchor(url, text) == [ tag |-> "a", name |-> url, text |-> text, frag |-> FALSE ]

\* what stands in a link element before its reference: nothing, plain text,
\* or text with markup
LinkTexts == { <<>>, <<PlainText("Click")>>, <<MarkedUp("Bold")>> }

\* the references: to a page, with and without title; to a url, with and
\* without value
LinkRefs == { PageRef("T"), PageRef(""), UrlRef("u"), UrlRef("") }

LinkElements ==
    { <<LinkOpen>> \o t \o <<r, LinkClose>> : t \in LinkTexts, r \in LinkRefs }

\* documents of up to MaxElems link elements and texts
LinkDocuments ==
    { Concat(es) : es \in UNION { [1..n -> LinkElements \cup {<<PlainText("x")>>}] :
                                    n \in 0..MaxElems } }

\* the first position after i that holds a tag of the kind, or 0
NextTag(d, i, tag) ==
    LET js == { j \in (i + 1)..Len(d) : d[j].tag = tag } IN
    IF js = {} THEN 0 ELSE CHOOSE j \in js : \A k \in js : j <= k

\* replace_page_link / replace_url_link on the match m, for the reference
\* tag ref: the first title (value) in the match, the text between the
\* first <ac:link> and the first reference
ReplaceLink(ref, m) ==
    LET vs == { v \in 1..Len(m) : m[v].tag = ref /\ m[v].name # "" } IN
    IF vs = {} THEN m
    ELSE LET v == CHOOSE x \in vs : \A y \in vs : x <= y
             target == m[v].name
             j == NextTag(m, 1, ref)
             link_text == IF j = 3 /\ m[2].tag = "plain" THEN m[2].text ELSE target
         IN IF ref = "ri:page"
            THEN <<PageAnchor(target, link_text)>>
            ELSE <<UrlAnchor(target, link_text)>>

\* re.sub(r'<ac:link>.*?<ri:REF[^>]+/>.*?</ac:link>', replacement, html,
\* flags=re.DOTALL), scanning from position i
RECURSIVE SubLinks(_, _, _)
SubLinks(d, i, ref) ==
    IF i > Len(d) THEN <<>>
    ELSE LET j == NextTag(d, i, ref)
             k == IF j = 0 THEN 0 ELSE NextTag(d, j, "/ac:link")
         IN IF d[i] = LinkOpen /\ k # 0
            THEN ReplaceLink(ref, SubSeq(d, i, k)) \o SubLinks(d, k + 1, ref)
            ELSE <<d[i]>> \o SubLinks(d, i + 1, ref)

\* _handle_confluence_links: the page links, then the url links
HandleConfluenceLinks(d) == SubLinks(SubLinks(d, 1, "ri:page"), 1, "ri:url")

\* _handle_confluence_links(html) is called on the document d
RewriteLinks(d) ==
    /\ doc.stage = "none"
    /\ doc' = [ stage |-> "linked", input |-> d, output |-> HandleConfluenceLinks(d) ]
    /\ UNCHANGED <<max_retries, auth_strategy, client, sessions, closes, scope,
                   exit_path, calls, callers, cred, conv>>

\* the converter keeps nothing of a document
LinksReset ==
    /\ doc.stage = "linked"
    /\ doc' = NoDocument
    /\ UNCHANGED <<max_retries, auth_strategy, client, sessions, closes, scope,
                   exit_path, calls, callers, cred, conv>>

NextLinks ==
    \/ \E d \in LinkDocuments : RewriteLinks(d)
    \/ LinksReset

SpecLinks == InitMacros /\ [][NextLinks]_vars

-----------------------------------------------------------------------------
(* Vocabulary of the properties *)

Is429(o) == o.status = Some(429)
IsConnectTimeout(o) == o.exc = Some("ConnectTimeout")
IsConnectError(o) == o.exc = Some("ConnectError")
IsTransient(o) == Is429(o) \/ IsConnectTimeout(o) \/ IsConnectError(o)

\* the condition of a transient outcome, as recorded in retried
ConditionOf(o) ==
    IF Is429(o) THEN "429" ELSE IF IsConnectTimeout(o) THEN "ConnectTimeout" ELSE "ConnectError"

Count(seq, x) == Cardinality({i \in 1..Len(seq) : seq[i] = x})

Raises(k) == k.result # None /\ k.result[1].t = "raise"
Returns(k) == k.result # None /\ k.result[1].t = "return"
Raised_(k) == k.result[1].exc[1]

\* the failure kinds of the specification
IsCredentialError(k) == Raises(k) /\ Raised_(k).cls = "AuthenticationError"
IsRateLimitedError(k) == Raises(k) /\ Raised_(k).cls = "RateLimitError"
IsRemoteServiceError(k) == Raises(k) /\ Raised_(k).cls = "APIError"
IsNotInitializedError(k) ==
    IsRemoteServiceError(k) /\ Raised_(k).message = "Client not initialized"
IsConnectionFailure(k) ==
    IsRemoteServiceError(k)
      /\ Raised_(k).message \in {"Connection timeout", "Connection error"}

\* the call ended because a transient condition met the retry bound
Exhausted(k) == IsRateLimitedError(k) \/ IsConnectionFailure(k)

\* the step in which call c receives the outcome of its pending HTTP request
Received(c) == calls[c].pc = "awaiting" /\ calls'[c].pc # "awaiting"

-----------------------------------------------------------------------------
(* C1 *)

\* C1: one logical call issues at most max_retries + 1 HTTP requests in
\* total, whatever mix of 429, connect-timeout and connect-error occurs, and
\* its retry counter never exceeds max_retries.
C1_AttemptsBounded ==
    \A c \in CallIds :
        /\ calls[c].requests <= max_retries + 1
        /\ calls[c].retry_count <= max_retries
        /\ Len(calls[c].retried) <= max_retries

\* a call with the default bound used every retry on a mix of all three
\* conditions and then failed on its fourth request
C1_Witness ==
    \E c \in CallIds :
        /\ max_retries = DEFAULT_MAX_RETRIES
        /\ calls[c].pc = "done"
        /\ calls[c].requests = max_retries + 1
        /\ Count(calls[c].retried, "429") = 1
        /\ Count(calls[c].retried, "ConnectTimeout") = 1
        /\ Count(calls[c].retried, "ConnectError") = 1
        /\ Exhausted(calls[c])

-----------------------------------------------------------------------------
(* C2 *)

\* C2: a call that receives k <= max_retries transient failures (any mix of
\* 429, connect-timeout, connect-error) and then a 200 succeeds with the body
\* of that 200: every transient failure received with retries left is retried,
\* and a 200 ends the call with the document that very response carried.
C2_TransientsThenSuccess ==
    [][ \A c \in CallIds :
          Received(c) =>
            LET o == calls'[c].last[1] IN
            /\ (IsTransient(o) /\ calls[c].retry_count < max_retries)
                  => calls'[c].pc = "sleeping"
            /\ (o = Response(200, <<>>, TRUE))
                  => /\ calls'[c].pc = "done"
                     /\ calls'[c].result = Some(Return(calls'[c].requests)) ]_vars

-----------------------------------------------------------------------------
(* C3 *)

\* C3 (as stated): the bound applies to each transient condition on its own,
\* so a call that fails by exhaustion on one condition has spent max_retries
\* retries on that very condition.
C3_IndependentBounds ==
    \A c \in CallIds :
        (calls[c].pc = "done" /\ Exhausted(calls[c]))
            => Count(calls[c].retried, ConditionOf(calls[c].last[1])) = max_retries

\* C3 (amended): one counter is shared by the three conditions.  A call that
\* fails by exhaustion has made exactly max_retries retries over all
\* conditions together, and a call suspended before a retry had made fewer
\* than max_retries retries, of whatever condition, before it.
C3_SharedBound ==
    \A c \in CallIds :
        /\ (calls[c].pc = "done" /\ Exhausted(calls[c]))
              => /\ Len(calls[c].retried) = max_retries
                 /\ Count(calls[c].retried, "429")
                      + Count(calls[c].retried, "ConnectTimeout")
                      + Count(calls[c].retried, "ConnectError") = max_retries
        /\ calls[c].pc = "sleeping" => Len(calls[c].retried) - 1 < max_retries

\* three 429 retries leave no retry for a first connect-timeout
C3_Witness ==
    \E c \in CallIds :
        /\ max_retries = DEFAULT_MAX_RETRIES
        /\ calls[c].pc = "done"
        /\ IsConnectionFailure(calls[c])
        /\ IsConnectTimeout(calls[c].last[1])
        /\ Count(calls[c].retried, "429") = max_retries
        /\ Count(calls[c].retried, "ConnectTimeout") = 0

-----------------------------------------------------------------------------
(* C4 *)

\* C4: once the bound is reached the failure is chosen by the condition of the
\* last attempt (RateLimitedError for a 429, a connection-failure
\* RemoteServiceError for connect-timeout and connect-error) and reports N =
\* the retries performed in the call.
C4_TerminalErrorAtBound ==
    \A c \in CallIds :
        LET k == calls[c] IN
        ( /\ k.pc = "done"
          /\ k.last # None
          /\ IsTransient(k.last[1])
          /\ Len(k.retried) = max_retries
          /\ k.requests = max_retries + 1 )
        => /\ Raises(k)
           /\ Is429(k.last[1]) => IsRateLimitedError(k)
           /\ IsConnectTimeout(k.last[1]) => Raised_(k).message = "Connection timeout"
           /\ IsConnectError(k.last[1]) => Raised_(k).message = "Connection error"
           /\ Raised_(k).retries = Some(Len(k.retried))

-----------------------------------------------------------------------------
(* C5 *)

\* C5: every 429 received is either retried (counter below the bound) or
\* surfaced as RateLimitedError (bound reached), whatever the Retry-After
\* header looks like; it never surfaces as another failure and never ends the
\* call early.
C5_RateLimitRetriedOrSurfaced ==
    [][ \A c \in CallIds :
          (Received(c) /\ Is429(calls'[c].last[1])) =>
             IF calls[c].retry_count < max_retries
             THEN calls'[c].pc = "sleeping"
             ELSE calls'[c].pc = "done" /\ IsRateLimitedError(calls'[c]) ]_vars

-----------------------------------------------------------------------------
(* C6 *)

\* C6: a RateLimitedError carries as retry_after the number in the Retry-After
\* header of the 429 that exhausted the retries (60 for "60", 0 for "0"), and
\* no retry_after when that response had no such header.
C6_RetryAfterCarried ==
    \A c \in CallIds :
        LET k == calls[c] IN
        (k.pc = "done" /\ IsRateLimitedError(k)) =>
            /\ k.last # None /\ Is429(k.last[1])
            /\ LET h == k.last[1].header IN
               /\ h = <<>> => Raised_(k).retry_after = None
               /\ h = <<"6", "0">> => Raised_(k).retry_after = <<60>>
               /\ h = <<"0">> => Raised_(k).retry_after = <<0>>
               /\ h # <<>> => Raised_(k).retry_after = <<IntOf(h)>>

\* max_retries = 0 and a first 429 with Retry-After: 60
C6_Witness ==
    \E c \in CallIds :
        /\ max_retries = 0
        /\ calls[c].pc = "done"
        /\ IsRateLimitedError(calls[c])
        /\ calls[c].last[1].header = <<"6", "0">>
        /\ Raised_(calls[c]).retry_after = <<60>>

-----------------------------------------------------------------------------
(* C7 *)

\* C7: before the retry of a 429 the call sleeps for the Retry-After value
\* whenever the header is present, the value 0 included, and for
\* 2^retry_count seconds only when the header is absent.
C7_WaitIsRetryAfter ==
    \A c \in CallIds :
        LET k == calls[c] IN
        (k.pc = "sleeping" /\ Is429(k.last[1])) =>
            LET h == k.last[1].header
                wait_time == k.waits[Len(k.waits)]
            IN IF h # <<>> THEN wait_time = IntOf(h)
                           ELSE wait_time = Pow2(k.retry_count)

-----------------------------------------------------------------------------
(* C8 *)

NonTransientTimeouts == {"ReadTimeout", "WriteTimeout", "PoolTimeout"}
NonTransientTransport == NonTransientTimeouts \cup {"ReadError"}

IsNonTransient(o) ==
    \/ o.status # None /\ o.status[1] \in OtherStatuses
    \/ o.exc # None /\ o.exc[1] \in NonTransientTransport

\* C8: a non-transient outcome ends the call where it occurs, whatever the
\* retry counter, with no further request: 401 and 403 give CredentialError;
\* 404, >= 500 and every other non-200, non-429 status give RemoteServiceError
\* with that status code; read, write and pool timeouts and other transport
\* errors give RemoteServiceError.
C8_NonTransientEndsCall ==
    \A c \in CallIds :
        LET k == calls[c] IN
        (k.last # None /\ IsNonTransient(k.last[1])) =>
            LET o == k.last[1] IN
            /\ k.pc = "done"
            /\ k.requests = Len(k.retried) + 1
            /\ (o.status # None /\ o.status[1] \in {401, 403}) => IsCredentialError(k)
            /\ (o.status # None /\ o.status[1] \notin {401, 403})
                  => IsRemoteServiceError(k) /\ Raised_(k).status_code = o.status
            /\ (o.exc # None /\ o.exc[1] \in NonTransientTimeouts)
                  => IsRemoteServiceError(k) /\ Raised_(k).message = "Request timed out"
            /\ o.exc = <<"ReadError">>
                  => IsRemoteServiceError(k) /\ Raised_(k).message = "Network error"

\* a read timeout after two retries ends the call on its third request
C8_Witness ==
    \E c \in CallIds :
        /\ calls[c].pc = "done"
        /\ calls[c].last = Some(Raised("ReadTimeout"))
        /\ Len(calls[c].retried) = 2
        /\ calls[c].requests = 3
        /\ IsRemoteServiceError(calls[c])

-----------------------------------------------------------------------------
(* C9 *)

\* C9: a call made while no session is held (before the scope is entered or
\* after the session was released) fails with the not-initialized error,
\* issues no HTTP request and is not retried.
C9_NoSessionNoRequest ==
    [][ \A c \in CallIds :
          (client = None /\ calls[c].pc = "idle" /\ calls'[c].pc # "idle") =>
              /\ calls'[c].pc = "done"
              /\ IsNotInitializedError(calls'[c])
              /\ calls'[c].requests = 0
              /\ calls'[c].retried = <<>> ]_vars

\* a call made after the scope released its session
C9_Witness ==
    \E c \in CallIds :
        /\ scope = "left"
        /\ client = None
        /\ \E s \in SessionIds : sessions[s] = "closed"
        /\ calls[c].pc = "done"
        /\ IsNotInitializedError(calls[c])
        /\ calls[c].requests = 0

-----------------------------------------------------------------------------
(* C10 *)

\* C10: once the scope is left, by normal exit, by an exception in its body or
\* by a failure during entry after the session was created, every session it
\* acquired has been released exactly once and none is still open.
C10_ReleasedOnEveryExit ==
    scope \in {"left", "enter_failed"} =>
        \A s \in SessionIds :
            sessions[s] # "none" => sessions[s] = "closed" /\ closes[s] = 1

-----------------------------------------------------------------------------
(* C11 *)

\* the retries a call has resumed from, counted from its own history alone
OwnRetries(k) == IF k.pc = "sleeping" THEN Len(k.retried) - 1 ELSE Len(k.retried)

\* C11: the retry counter belongs to one logical call.  A new call starts with
\* counter 0 and no request, retry or wait carried over from the call before
\* it; the counter of a call equals the number of its own retries, its
\* requests and waits are those of its own retries, and a step of one call
\* changes nothing of another call sharing the session.
C11_CounterPerCall ==
    [][ \A c \in CallIds :
          /\ (calls[c].pc = "idle" /\ calls'[c].pc # "idle")
                => /\ calls'[c].retry_count = 0
                   /\ calls'[c].requests <= 1
                   /\ calls'[c].retried = <<>>
                   /\ calls'[c].waits = <<>>
          /\ calls'[c].pc # "idle"
                => /\ calls'[c].retry_count = OwnRetries(calls'[c])
                   /\ calls'[c].requests <= Len(calls'[c].retried) + 1
                   /\ Len(calls'[c].waits) = Len(calls'[c].retried)
          /\ calls'[c] # calls[c]
                => \A d \in CallIds \ {c} : calls'[d] = calls[d] ]_vars

\* while one call has been retried and is on its second request, the other
\* call, started later on the same session, ended on its first request
C11_Witness ==
    /\ client # None
    /\ calls["c1"].pc = "awaiting"
    /\ calls["c1"].retry_count = 1
    /\ calls["c1"].requests = 2
    /\ calls["c2"].pc = "done"
    /\ calls["c2"].retry_count = 0
    /\ calls["c2"].requests = 1
    /\ calls["c2"].retried = <<>>

-----------------------------------------------------------------------------
(* C12 *)

\* an attempt ended in an exception no except clause names: the request
\* raised a non-httpx exception, or the body of a 200 is not JSON
IsUnclassified(o) ==
    \/ o.exc = Some("ValueError")
    \/ o.status = Some(200) /\ ~o.json_ok

\* C12: an exception of an attempt that no handler classifies surfaces as
\* RemoteServiceError reporting the original exception's type; no failed
\* attempt is turned into a result: a call returns only the document of a 200
\* it received, and every other ended call raises one of the failure kinds
\* (the placeholder strategy's NotImplementedError apart, which is raised
\* before the attempt begins).
C12_UnclassifiedWrapped ==
    \A c \in CallIds :
        LET k == calls[c] IN
        k.pc = "done" =>
            /\ Raises(k) \/ Returns(k)
            /\ (k.last # None /\ IsUnclassified(k.last[1]))
                  => /\ IsRemoteServiceError(k)
                     /\ Raised_(k).message = "Unexpected error"
                     /\ Raised_(k).wrapped = Some("ValueError")
            /\ Returns(k)
                  => /\ k.last = Some(Response(200, <<>>, TRUE))
                     /\ k.result[1].body = Some(k.requests)
            /\ Raises(k)
                  => \/ Raised_(k).cls \in {"AuthenticationError", "RateLimitError", "APIError"}
                     \/ /\ auth_strategy = "OAuth2Auth"
                        /\ Raised_(k).cls = "NotImplementedError"
                        /\ k.requests = 0

\* after one retried connect error, a 200 whose body is not JSON
C12_Witness ==
    \E c \in CallIds :
        /\ calls[c].pc = "done"
        /\ calls[c].retried = <<"ConnectError">>
        /\ calls[c].last = Some(Response(200, <<>>, FALSE))
        /\ IsRemoteServiceError(calls[c])
        /\ Raised_(calls[c]).wrapped = Some("ValueError")

-----------------------------------------------------------------------------
(* C13 *)

\* C13: the validated flag is false at construction, becomes true only in
\* authenticate(), either on the path taken when no base_url was supplied or
\* when the validation call is answered with 200, and once true it stays
\* true through every later step, a later failing authenticate() included.
C13_ValidatedFlag ==
    /\ ~cred.authenticated
    /\ [][ /\ cred.authenticated => cred'.authenticated
           /\ (~cred.authenticated /\ cred'.authenticated)
                 => \/ cred.pc = "idle" /\ ~cred.base_url /\ cred'.pc = "done"
                    \/ /\ cred.pc = "awaiting"
                       /\ cred'.last # None
                       /\ cred'.last[1].status = Some(200) ]_vars

\* a credential validated earlier whose later authenticate() was answered
\* with 401: the flag is still true
C13_Witness ==
    /\ cred.base_url
    /\ cred.pc = "done"
    /\ cred.before
    /\ cred.last = Some(Response(401, <<>>, TRUE))
    /\ cred.result[1].t = "raise"
    /\ cred.authenticated

-----------------------------------------------------------------------------
(* C14 *)

\* C14: authenticate() of the API-token credential issues no GET without
\* base_url and exactly one with it, and its result is fixed by that one
\* exchange: 200 success; 401, 403 CredentialError; 429 RateLimitedError with
\* the retry-after hint of the header; any other status RemoteServiceError
\* with the status; timeout, network failure or unexpected exception
\* RemoteServiceError; a failure leaves the flag as it was.
C14_ValidateOutcome ==
    (auth_strategy = "APITokenAuth" /\ cred.pc = "done") =>
        LET r == cred.result[1] IN
        IF ~cred.base_url
        THEN cred.gets = 0 /\ r.t = "return" /\ cred.authenticated
        ELSE /\ cred.gets = 1
             /\ cred.last # None
             /\ LET o == cred.last[1] IN
                /\ o.status = Some(200) => r.t = "return" /\ cred.authenticated
                /\ (o.status # None /\ o.status[1] \in {401, 403})
                      => r.t = "raise" /\ r.exc[1].cls = "AuthenticationError"
                /\ o.status = Some(429)
                      => /\ r.t = "raise"
                         /\ r.exc[1].cls = "RateLimitError"
                         /\ o.header = <<>> => r.exc[1].retry_after = None
                         /\ IntParses(o.header)
                               => r.exc[1].retry_after = Some(IntOf(o.header))
                /\ (o.status # None /\ o.status[1] \notin {200, 401, 403, 429})
                      => /\ r.t = "raise"
                         /\ r.exc[1].cls = "APIError"
                         /\ r.exc[1].status_code = o.status
                /\ o.exc # None => r.t = "raise" /\ r.exc[1].cls = "APIError"
             /\ r.t = "raise" => cred.authenticated = cred.before

-----------------------------------------------------------------------------
(* C15 *)

\* C15: entering the client's scope validates the credential, so inside the
\* scope the credential's validated flag is true.
C15_EnterValidates ==
    scope = "inside" => cred.authenticated

-----------------------------------------------------------------------------
(* C16 *)

OutcomeRaises(k) == k.outcome # None /\ k.outcome[1].t = "raise"
OutcomeReturns(k) == k.outcome # None /\ k.outcome[1].t = "return"

\* the operation ended with PageNotFoundError
IsNotFoundError(k) == OutcomeRaises(k) /\ k.outcome[1].exc[1].cls = "PageNotFoundError"

\* C16: get_page_content and get_child_pages raise NotFoundError, carrying
\* the id they were given, exactly when the request ended with status 404,
\* whatever was retried before; every other failure of the request is the
\* failure of the operation, unchanged, and a request that returned gives an
\* operation that returns.
C16_NotFoundMapped ==
    \A c \in CallIds :
        LET k == calls[c] IN
        (k.pc = "done" /\ k.op[1].op \in {"get_page_content", "get_child_pages"}) =>
            /\ IsNotFoundError(k) <=> (k.last # None /\ k.last[1].status = Some(404))
            /\ IsNotFoundError(k)
                  => /\ k.outcome[1].exc[1].page_id = k.op[1].page_id
                     /\ k.outcome[1].exc[1].status_code = Some(404)
            /\ (Raises(k) /\ ~IsNotFoundError(k))
                  => OutcomeRaises(k) /\ k.outcome[1].exc = k.result[1].exc
            /\ Returns(k) <=> OutcomeReturns(k)

\* get_child_pages("456") answered 429, retried, then answered 404
C16_Witness ==
    \E c \in CallIds :
        /\ calls[c].pc = "done"
        /\ calls[c].op = Some(Op("get_child_pages", "456", FALSE, FALSE))
        /\ calls[c].retried = <<"429">>
        /\ calls[c].last = Some(Response(404, <<>>, TRUE))
        /\ IsNotFoundError(calls[c])
        /\ calls[c].outcome[1].exc[1].page_id = "456"

-----------------------------------------------------------------------------
(* C17 *)

\* C17: get_page_content with as_markdown=True whose request returned never
\* ends in a converter failure: when the converter raises, the operation
\* returns content_format "html" with the stored markup as content; when it
\* does not, the result is the converter's markdown.
C17_ConverterFallback ==
    \A c \in CallIds :
        LET k == calls[c] IN
        ( /\ k.pc = "done"
          /\ k.op[1].op = "get_page_content"
          /\ k.op[1].as_markdown
          /\ Returns(k) )
        => /\ OutcomeReturns(k)
           /\ LET page == k.outcome[1].body[1]
                  html_content == PageBody(k.op[1].page_id)
              IN IF k.op[1].converter_raises \/ html_content = ""
                 THEN page.content_format = "html" /\ page.content = html_content
                 ELSE page.content_format = "markdown" /\ page.content = "# Test"

\* the converter raised on the body of page 123, fetched after a retry
C17_Witness ==
    \E c \in CallIds :
        /\ calls[c].pc = "done"
        /\ calls[c].op = Some(Op("get_page_content", "123", TRUE, TRUE))
        /\ calls[c].retried = <<"ConnectTimeout">>
        /\ Returns(calls[c])
        /\ calls[c].outcome = Some(Return(PageContent("123", "<h1>Test</h1>", "html")))

-----------------------------------------------------------------------------
(* C18 *)

Converted == conv.stage \in {"done", "rerun"}

\* C18 (as stated): convert of the empty string and of any whitespace-only
\* string returns "" at once, without the base conversion being invoked.
C18_BlankBypasses ==
    (Converted /\ Strip(conv.html) = <<>>) =>
        ~conv.md_called /\ conv.result = Some(Return(<<>>))

\* C18 (amended): only the empty string is answered at once, with "" and
\* without invoking the base conversion.  Any other input, whitespace-only
\* ones included, goes through the pipeline: the base conversion is invoked;
\* the result is "" whenever the base conversion returns only whitespace,
\* and ConversionError when it raises.
C18_EmptyBypasses ==
    Converted =>
        IF conv.html = <<>>
        THEN ~conv.md_called /\ conv.markdown = None /\ conv.result = Some(Return(<<>>))
        ELSE /\ conv.md_called
             /\ conv.markdown = None
                   => /\ conv.result[1].t = "raise"
                      /\ conv.result[1].exc[1].cls = "ConversionError"
             /\ (conv.markdown # None /\ Strip(conv.markdown[1]) = <<>>)
                   => conv.result = Some(Return(<<>>))

\* convert("   "): the base conversion ran and returned whitespace
C18_Witness ==
    /\ conv.stage = "done"
    /\ conv.html = <<" ", " ", " ">>
    /\ conv.md_called
    /\ conv.markdown = Some(<<" ", NL>>)
    /\ conv.result = Some(Return(<<>>))

-----------------------------------------------------------------------------
(* C20 *)

\* C20: postprocess is idempotent: applied to the text convert() returned,
\* which is postprocess of the base conversion's text m, it gives that text
\* again.
C20_PostprocessIdempotent ==
    conv.stage = "rerun" => conv.again = Some(conv.result[1].body[1])

-----------------------------------------------------------------------------
(* C19 *)

IsTocTag(tok) == tok.tag \in {"open", "self"} /\ tok.name = "toc"

\* the document d without its toc elements: the self-closing tags, and each
\* opening tag with the closing tag that follows it
RECURSIVE WithoutToc(_)
WithoutToc(d) ==
    IF d = <<>> THEN <<>>
    ELSE IF Head(d) = SelfClosingTag("toc") THEN WithoutToc(Tail(d))
    ELSE IF Head(d) = OpenTag("toc") THEN WithoutToc(Tail(Tail(d)))
    ELSE <<Head(d)>> \o WithoutToc(Tail(d))

\* C19: no toc macro of the input is left in the output of macro rewriting,
\* and everything else comes out as it does for the same document without
\* its toc macros, wherever they stand and in either form.
C19_TocRemoved ==
    doc.stage = "rewritten" =>
        /\ \A i \in 1..Len(doc.output) : ~IsTocTag(doc.output[i])
        /\ doc.output = HandleConfluenceMacros(WithoutToc(doc.input))

\* C21: for every limit argument, search_pages and get_child_pages send
\* min(max(limit, 1), 100): 100 for a limit above 100, 1 for a limit below 1
\* (0 and the negatives), and the limit itself when it lies in 1..100.
C21_LimitClamped ==
    \A c \in CallIds :
        LET k == calls[c] IN
        (k.op # None /\ k.op[1].op \in {"search_pages", "get_child_pages"}) =>
            LET limit == k.op[1].limit[1] IN
            /\ k.params # None
            /\ limit > 100 => k.params[1] = 100
            /\ limit < 1 => k.params[1] = 1
            /\ limit \in 1..100 => k.params[1] = limit

\* get_child_pages(limit=0) has a request in flight that carries limit 1
C21_Witness ==
    \E c \in CallIds :
        /\ calls[c].pc = "awaiting"
        /\ calls[c].op[1].op = "get_child_pages"
        /\ calls[c].op[1].limit = Some(0)
        /\ calls[c].params = Some(1)

\* C22: a logical call moves Pending -> Success | TerminalFailure | Retrying,
\* and Retrying -> Pending with one more retry counted against max_retries;
\* a call that has started reaches Success or TerminalFailure when its
\* requests and sleeps complete; a call in a terminal state issues no
\* request and no sleep until the caller makes a new call.
C22_Step(c) ==
    LET k == calls[c]
        n == calls'[c]
    IN  k # n =>
          /\ k.pc = "idle" => n.pc \in {"awaiting", "done"}
          /\ k.pc = "awaiting" => n.pc \in {"sleeping", "done"}
          /\ k.pc = "sleeping" =>
                /\ n.pc \in {"awaiting", "done"}
                /\ n.retry_count = k.retry_count + 1
                /\ n.retry_count <= max_retries
          /\ k.pc = "done" => n = IdleCall
          /\ n.pc = "done" =>
                /\ n.result # None
                /\ n.result[1].t \in {"return", "raise"}
                /\ n.requests = IF k.pc = "awaiting" THEN k.requests ELSE n.requests
                /\ n.waits = k.waits

C22_Terminates ==
    /\ [][\A c \in CallIds : C22_Step(c)]_vars
    /\ \A c \in CallIds : (calls[c].pc \in {"awaiting", "sleeping"}) ~> (calls[c].pc = "done")

\* a call has ended in Success after two retries
C22_Witness ==
    \E c \in CallIds :
        /\ calls[c].pc = "done"
        /\ calls[c].result[1].t = "return"
        /\ Len(calls[c].waits) = 2
        /\ calls[c].requests = 3

\* C23: within a logical call there is exactly one sleep before every request
\* after the first, and the sleep that follows a connect timeout or a connect
\* error lasts 2^a seconds, a being the number of retries the call has already
\* made: 1, 2, 4 for three connection failures in a row.
C23_OneSleepPerRetry ==
    \A c \in CallIds :
        LET k == calls[c] IN
        /\ Len(k.waits) = Len(k.retried)
        /\ k.requests <= Len(k.waits) + 1
        /\ k.pc = "awaiting" => k.requests = Len(k.waits) + 1
        /\ k.pc = "sleeping" => k.requests = Len(k.waits)
        /\ \A i \in 1..Len(k.waits) :
              k.retried[i] \in {"ConnectTimeout", "ConnectError"} => k.waits[i] = Pow2(i - 1)

\* three connection failures in a row, of both kinds, have been waited for
C23_Witness ==
    \E c \in CallIds :
        /\ calls[c].retried = <<"ConnectTimeout", "ConnectError", "ConnectTimeout">>
        /\ calls[c].waits = <<1, 2, 4>>
        /\ calls[c].pc = "awaiting"
        /\ calls[c].requests = 4

\* C24: while a call is suspended in asyncio.sleep or awaits its response,
\* another call on the same client can start (and so issue its request on the
\* shared session), can receive its response and can hand its result to its
\* caller: none of these steps waits for the first call.
C24_OthersProceed ==
    \A c \in CallIds : \A d \in CallIds \ {c} :
        calls[d].pc \in {"sleeping", "awaiting"} =>
            /\ calls[c].pc = "idle" => ENABLED Call(c)
            /\ calls[c].pc = "awaiting" => ENABLED (\E o \in ServerOutcomes : Respond(c, o))
            /\ calls[c].pc = "done" => ENABLED Finish(c)

\* one call sleeps before its first retry while the other, on the same open
\* session, has its request in flight
C24_Witness ==
    /\ client # None
    /\ sessions[client[1]] = "open"
    /\ calls["c1"].pc = "sleeping"
    /\ calls["c1"].requests = 1
    /\ calls["c2"].pc = "awaiting"
    /\ calls["c2"].requests = 1

-----------------------------------------------------------------------------
(* C25 *)

\* three newlines in a row somewhere in the text s
HasNewlineRun(s) ==
    \E i \in 1..(Len(s) - 2) : s[i] = NL /\ s[i + 1] = NL /\ s[i + 2] = NL

\* C25: whatever text the base conversion returns, the output of
\* _postprocess_markdown holds no run of three or more newlines.
C25_NoNewlineRun ==
    (conv.stage = "done" /\ conv.markdown # None) =>
        ~HasNewlineRun(conv.result[1].body[1])

-----------------------------------------------------------------------------
(* C26 *)

\* position i of d opens an info macro whose rich-text body nests a code macro
NestsCode(d, i) ==
    /\ i + 5 <= Len(d)
    /\ d[i] = OpenTag("info")
    /\ d[i + 1] = BodyOpen
    /\ \E j \in (i + 2)..(Len(d) - 2) :
          /\ SubSeq(d, j, j + 2) = CodeElement
          /\ \A x \in (i + 2)..(j - 1) : d[x].tag = "text"

\* position j of d is the indicator of an info panel that quotes the code
QuotesCode(d, j) ==
    /\ d[j] = QuoteHeader("info")
    /\ \E k \in (j + 1)..Len(d) :
          /\ d[k] = QuoteCode("source")
          /\ \A x \in (j + 1)..(k - 1) : d[x].tag = "quote-line"

\* C26: the passes match shortest-first in the order code, info, warning,
\* note, tip, toc, other, so that a code macro nested in the body of an info
\* macro is rewritten before the info macro is matched: the output holds the
\* INFO indicator with the code content quoted under it.
C26_NestedCodeKept ==
    doc.stage = "rewritten" =>
        ((\E i \in 1..Len(doc.input) : NestsCode(doc.input, i))
            => \E j \in 1..Len(doc.output) : QuotesCode(doc.output, j))

-----------------------------------------------------------------------------
(* C27 *)

\* the anchor of one link element e, or e itself when its reference has no
\* title or value
OwnAnchor(e) ==
    LET r == e[Len(e) - 1]
        link_text == IF Len(e) = 4 /\ e[2].tag = "plain" THEN e[2].text ELSE r.name
    IN  IF r.name = "" THEN e
        ELSE IF r.tag = "ri:page" THEN <<PageAnchor(r.name, link_text)>>
        ELSE <<UrlAnchor(r.name, link_text)>>

\* every link element of d replaced by its own anchor, the rest kept
RECURSIVE EachLinkRewritten(_, _)
EachLinkRewritten(d, i) ==
    IF i > Len(d) THEN <<>>
    ELSE IF d[i] = LinkOpen
    THEN LET k == NextTag(d, i, "/ac:link") IN
         OwnAnchor(SubSeq(d, i, k)) \o EachLinkRewritten(d, k + 1)
    ELSE <<d[i]>> \o EachLinkRewritten(d, i + 1)

\* C27: every link element with a url value or a page title becomes its own
\* anchor (href the url, or '#' and the title; text the plain inner text, else
\* the url or title), whatever else the document holds; texts, other link
\* elements and link elements without value or title are left as they are.
C27_LinksIndependent ==
    doc.stage = "linked" => doc.output = EachLinkRewritten(doc.input, 1)

-----------------------------------------------------------------------------
(* C30 *)

\* C30: get_page_content returns content_format "markdown" exactly when
\* as_markdown was requested, the body of the page is not empty and the
\* converter did not raise; in every other case content_format is "html" and
\* content is the body as the service sent it.
C30_FormatLabel ==
    \A c \in CallIds :
        LET k == calls[c] IN
        (k.pc = "done" /\ k.op[1].op = "get_page_content" /\ k.outcome[1].t = "return") =>
            LET page == k.outcome[1].body[1]
                html_content == PageBody(k.op[1].page_id)
                converted == /\ k.op[1].as_markdown
                             /\ html_content # ""
                             /\ ~k.op[1].converter_raises
            IN  /\ page.content_format = "markdown" <=> converted
                /\ ~converted => page.content_format = "html" /\ page.content = html_content

\* markdown was requested for the page with the empty body: html is returned
C30_Witness ==
    \E c \in CallIds :
        /\ calls[c].pc = "done"
        /\ calls[c].op = Some(Op("get_page_content", "456", TRUE, FALSE))
        /\ calls[c].outcome = Some(Return(PageContent("456", "", "html")))

-----------------------------------------------------------------------------
(* C28 *)

\* the client holds no session a request could go out on: close() has
\* finished (client is None) or is suspended in aclose()
NoLiveSession == client = None \/ sessions[client[1]] = "closed"

\* C28: no request is issued on a released session; a call that sleeps in
\* backoff while the session is released issues no request on waking, fails
\* with the not-initialized failure, and is not retried further.
C28_ReleasedSessionUnused ==
    [][ \A c \in CallIds :
          LET k == calls[c]
              n == calls'[c]
          IN  /\ n.requests > k.requests => ~NoLiveSession
              /\ (k.pc = "sleeping" /\ n # k /\ NoLiveSession) =>
                    /\ n.pc = "done"
                    /\ n.requests = k.requests
                    /\ n.waits = k.waits
                    /\ IsNotInitializedError(n) ]_vars

-----------------------------------------------------------------------------
(* C29 *)

\* C29: whatever the order of the enter and close operations on a client,
\* every session created is closed exactly once: never twice, and never
\* left open once the client no longer holds it.  (Stated for APITokenAuth,
\* whose __aenter__ does not fail.)
C29_ClosedExactlyOnce ==
    auth_strategy = "APITokenAuth" =>
        \A s \in SessionIds :
            /\ closes[s] <= 1
            /\ sessions[s] = "closed" => closes[s] = 1
            /\ sessions[s] = "open" => client = Some(s)

====
